---- MODULE Spec2Model ----
(***************************************************************************)
(* Model of the ios-vibe-localizer action: the catalog analyzer            *)
(* (src/helpers/stringAnalyzer.ts, analyzeStringsForTranslation) and the   *)
(* orchestration in run() (index.ts) that dispatches the request batch,    *)
(* merges the provider response into the working catalog, writes the file  *)
(* and opens a pull request.                                               *)
(*                                                                         *)
(* Text is modelled as a sequence of one-character strings so that trim()  *)
(* and the "key (lang)" formatting are computed rather than assumed.       *)
(* Objects that the code reaches through references live in `heap`; a      *)
(* variable holding an object holds its address.                           *)
(***************************************************************************)
EXTENDS Integers, Sequences, FiniteSets, TLC

(***************************************************************************)
(* Text                                                                    *)
(***************************************************************************)
SP == " "

\* String.prototype.trim(): strip whitespace from both ends.
RECURSIVE TrimStart(_)
TrimStart(s) == IF s # <<>> /\ Head(s) = SP THEN TrimStart(Tail(s)) ELSE s

RECURSIVE TrimEnd(_)
TrimEnd(s) ==
  IF s # <<>> /\ s[Len(s)] = SP THEN TrimEnd(SubSeq(s, 1, Len(s) - 1)) ELSE s

Trim(s) == TrimEnd(TrimStart(s))

\* Array.prototype.includes
Includes(seq, x) == \E i \in 1..Len(seq) : seq[i] = x

\* `${key} (${lang})`
ChangeKey(key, lang) == key \o <<" ", "(">> \o lang \o <<")">>

(***************************************************************************)
(* Languages, keys and catalog values used as inputs                       *)
(***************************************************************************)
en == <<"e", "n">>
fr == <<"f", "r">>
de == <<"d", "e">>
es == <<"e", "s">>

Hello    == <<"H", "e", "l", "l", "o">>
EmptyKey == <<>>
Ghost    == <<"G", "h", "o", "s", "t">>

Bonjour == <<"B", "o", "n", "j", "o", "u", "r">>
Salut   == <<"S", "a", "l", "u", "t">>
Hallo   == <<"H", "a", "l", "l", "o">>
Hola    == <<"H", "o", "l", "a">>
Padded  == <<" ", "H", "i", " ", "u", " ">>
Blank   == <<" ", " ">>

\* A localization entry: { stringUnit?: { state, value? } }
Loc(state, value) ==
  [hasUnit |-> TRUE, state |-> state, hasValue |-> TRUE, value |-> value]
LocNoValue(state) ==
  [hasUnit |-> TRUE, state |-> state, hasValue |-> FALSE, value |-> <<>>]
LocNoUnit ==
  [hasUnit |-> FALSE, state |-> "", hasValue |-> FALSE, value |-> <<>>]

\* A localizations object; present = FALSE is an entry without the field.
NoLocs    == [present |-> FALSE, map |-> <<>>]
Locs(map) == [present |-> TRUE, map |-> map]

\* A catalog entry.  shouldTranslate and extractionState are "absent" when
\* the JSON has no such field; comment is <<>> when there is none.
Entry(state, should, comment, locs) ==
  [extractionState |-> state, shouldTranslate |-> should,
   comment |-> comment, localizations |-> locs]

(***************************************************************************)
(* Catalog: the `strings` object, as the sequence of its properties in     *)
(* iteration order.                                                        *)
(***************************************************************************)
KeysOf(cat) == {cat[i].key : i \in 1..Len(cat)}
HasKey(cat, k) == k \in KeysOf(cat)
EntryOf(cat, k) == cat[CHOOSE i \in 1..Len(cat) : cat[i].key = k].entry
SetEntry(cat, k, e) ==
  [i \in 1..Len(cat) |-> IF cat[i].key = k THEN [key |-> k, entry |-> e]
                         ELSE cat[i]]
\* Variant: the delete is missing.
DeleteKey_keeps(cat, k) == cat

DeleteKey(cat, k) == SelectSeq(cat, LAMBDA p : p.key # k)

HasLoc(entry, lang) ==
  entry.localizations.present /\ lang \in DOMAIN entry.localizations.map

(***************************************************************************)
(* analyzeStringsForTranslation (src/helpers/stringAnalyzer.ts), the       *)
(* module run() imports as './helpers/stringAnalyzer'.  An earlier         *)
(* revision of the same function also exists in the repository; it tests   *)
(* only for a falsy value, has no fallback counter and creates an empty    *)
(* translated localization for every needed language.  run() does not      *)
(* call it and it is not modelled.                                         *)
(***************************************************************************)
\* Variant: no copy is made; the analyzer works on the caller's object.
DeepCopyAddr_aliases(src, free) == src

\* JSON.parse(JSON.stringify(xcstringsData)): the catalog came out of
\* JSON.parse, so the round trip keeps its value; the result is a fresh
\* object, so the working copy gets an address of its own.
DeepCopyAddr(src, free) == free

\* targetStringUnit?.state === 'needs_review'
IsNeedsReview(entry, lang) ==
  /\ HasLoc(entry, lang)
  /\ entry.localizations.map[lang].hasUnit
  /\ entry.localizations.map[lang].state = "needs_review"

\* !targetStringUnit || !targetStringUnit.value
\*   || targetStringUnit.value.trim().length === 0
IsMissingOrEmpty(entry, lang) ==
  \/ ~HasLoc(entry, lang)
  \/ ~entry.localizations.map[lang].hasUnit
  \/ ~entry.localizations.map[lang].hasValue
  \/ entry.localizations.map[lang].value = <<>>
  \/ Len(Trim(entry.localizations.map[lang].value)) = 0

\* Variant: the needs_review state is not looked at.
NeedsTranslationForLang_ignoresReview(entry, lang) ==
  IsMissingOrEmpty(entry, lang)

NeedsTranslationForLang(entry, lang) ==
  IsMissingOrEmpty(entry, lang) \/ IsNeedsReview(entry, lang)

\* const isNewTranslation = !targetLocalization
IsNewTranslation(entry, lang) == ~HasLoc(entry, lang)

\* Variant: the languages are collected in reverse.
LanguagesNeeded_reversed(entry, targets) ==
  LET kept == SelectSeq(targets, LAMBDA lang : NeedsTranslationForLang(entry, lang))
  IN  [i \in 1..Len(kept) |-> kept[Len(kept) + 1 - i]]

\* The inner loop over targetLanguages: the languages pushed, in order.
LanguagesNeeded(entry, targets) ==
  SelectSeq(targets, LAMBDA lang : NeedsTranslationForLang(entry, lang))

IsNewMap(entry, needed) ==
  [lang \in {needed[i] : i \in 1..Len(needed)} |->
     IsNewTranslation(entry, lang)]

\* Variant: the trim() is missing.
SourceTextCandidate_untrimmed(entry, hint) ==
  IF hint # <<>> /\ HasLoc(entry, hint)
     /\ entry.localizations.map[hint].hasUnit
     /\ entry.localizations.map[hint].hasValue
  THEN [defined |-> TRUE, text |-> entry.localizations.map[hint].value]
  ELSE [defined |-> FALSE, text |-> <<>>]

\* sourceLanguageForText
\*   ? entry.localizations?.[hint]?.stringUnit?.value?.trim() : undefined
\* modelled as [defined, text].
SourceTextCandidate(entry, hint) ==
  IF hint # <<>> /\ HasLoc(entry, hint)
     /\ entry.localizations.map[hint].hasUnit
     /\ entry.localizations.map[hint].hasValue
  THEN [defined |-> TRUE, text |-> Trim(entry.localizations.map[hint].value)]
  ELSE [defined |-> FALSE, text |-> <<>>]

\* !sourceTextCandidate || sourceTextCandidate.length === 0
UseKeyFallback(entry, hint) ==
  LET cand == SourceTextCandidate(entry, hint)
  IN  ~cand.defined \/ cand.text = <<>> \/ Len(cand.text) = 0

SourceText(key, entry, hint) ==
  IF UseKeyFallback(entry, hint) THEN key
  ELSE SourceTextCandidate(entry, hint).text

\* currentStringEntry.extractionState === 'stale'
IsStale(entry) == entry.extractionState = "stale"

\* Variant: the shouldTranslate check is missing.
IsOptedOut_never(entry) == FALSE

\* currentStringEntry.shouldTranslate === false
IsOptedOut(entry) == entry.shouldTranslate = "false"

\* if (!currentStringEntry.localizations) currentStringEntry.localizations = {}
EnsureLocalizations(entry) ==
  IF entry.localizations.present THEN entry
  ELSE [entry EXCEPT !.localizations = Locs(<<>>)]

\* The state the loop of analyzeStringsForTranslation carries.
EmptyAnalysis(cat) ==
  [translationRequests  |-> <<>>,
   staleRemoved         |-> <<>>,
   stringTranslationMap |-> <<>>,
   modified             |-> cat,
   xcstringsModified    |-> FALSE,
   fallbackToKeyCount   |-> 0]

\* Map.prototype.set
MapSet(m, k, v) ==
  [x \in DOMAIN m \cup {k} |-> IF x = k THEN v ELSE m[x]]

\* One iteration of `for (const key in modifiedXcstringsData.strings)`.
AnalyzeKey(acc, key, targets, hint) ==
  LET current == EntryOf(acc.modified, key) IN
  IF IsStale(current)
  THEN [acc EXCEPT !.modified = DeleteKey(@, key),
                   !.xcstringsModified = TRUE,
                   !.staleRemoved = Append(@, key)]
  ELSE IF IsOptedOut(current)
  THEN acc
  ELSE
    LET entry  == EnsureLocalizations(current)
        needed == LanguagesNeeded(entry, targets)
        kept   == [acc EXCEPT !.modified = SetEntry(@, key, entry)]
    IN  IF Len(needed) > 0
        THEN [kept EXCEPT
                !.fallbackToKeyCount =
                   IF UseKeyFallback(entry, hint) THEN @ + 1 ELSE @,
                !.translationRequests =
                   Append(@, [key |-> key,
                              text |-> SourceText(key, entry, hint),
                              targetLanguages |-> needed,
                              comment |-> entry.comment]),
                !.stringTranslationMap =
                   MapSet(@, key, [languages |-> needed,
                                   isNew |-> IsNewMap(entry, needed)])]
        ELSE kept

RECURSIVE AnalyzeFrom(_, _, _, _, _)
AnalyzeFrom(acc, order, i, targets, hint) ==
  IF i > Len(order) THEN acc
  ELSE AnalyzeFrom(AnalyzeKey(acc, order[i], targets, hint),
                   order, i + 1, targets, hint)

\* The whole function, applied to the copy it works on.
analyzeStringsForTranslation(copy, targets, hint) ==
  AnalyzeFrom(EmptyAnalysis(copy), [i \in 1..Len(copy) |-> copy[i].key],
              1, targets, hint)

(***************************************************************************)
(* The merge loop of run() (index.ts)                                      *)
(***************************************************************************)
\* stringEntry.localizations![lang]!.stringUnit = {state: "translated", value}
\* The `!` are compile-time assertions only: when localizations[lang] is
\* undefined the assignment throws a TypeError.
WriteThrows(entry, lang) == ~HasLoc(entry, lang)

\* Variant: the value is written to every localization of the entry.
WriteStringUnit_everyLanguage(entry, lang, value) ==
  [entry EXCEPT !.localizations.map =
     [l \in DOMAIN @ |-> Loc("translated", value)]]

WriteStringUnit(entry, lang, value) ==
  [entry EXCEPT !.localizations.map[lang] = Loc("translated", value)]

\* translationInfo.isNew.get(lang) ? added : updated
LandsInAdded(info, lang) == info.isNew[lang]

\* Body of `for (const [lang, translatedValue] of Object.entries(...))`.
\* st = [cat, added, updated, threw].
MergePair(st, key, info, pair) ==
  IF st.threw \/ ~Includes(info.languages, pair.lang) THEN st
  ELSE IF WriteThrows(EntryOf(st.cat, key), pair.lang)
  THEN [st EXCEPT !.threw = TRUE]
  ELSE
    LET written == [st EXCEPT !.cat =
                      SetEntry(@, key, WriteStringUnit(EntryOf(@, key),
                                                       pair.lang, pair.value))]
    IN  IF LandsInAdded(info, pair.lang)
        THEN [written EXCEPT !.added = Append(@, ChangeKey(key, pair.lang))]
        ELSE [written EXCEPT !.updated = Append(@, ChangeKey(key, pair.lang))]

RECURSIVE MergePairsFrom(_, _, _, _, _)
MergePairsFrom(st, key, info, pairs, i) ==
  IF i > Len(pairs) THEN st
  ELSE MergePairsFrom(MergePair(st, key, info, pairs[i]), key, info,
                      pairs, i + 1)

\* if (!stringEntry || !translationInfo) { core.warning(...); continue; }
IsUnknownKey(cat, map, key) == ~HasKey(cat, key) \/ key \notin DOMAIN map

\* Variant: an unknown key throws instead of being skipped.
MergeItem_throwsOnUnknown(st, map, item) ==
  IF st.threw THEN st
  ELSE IF IsUnknownKey(st.cat, map, item.key) THEN [st EXCEPT !.threw = TRUE]
  ELSE MergePairsFrom(st, item.key, map[item.key], item.translations, 1)

\* Body of `for (const translationResult of batchResponse.translations)`.
MergeItem(st, map, item) ==
  IF st.threw \/ IsUnknownKey(st.cat, map, item.key) THEN st
  ELSE MergePairsFrom(st, item.key, map[item.key], item.translations, 1)

RECURSIVE MergeFrom(_, _, _, _)
MergeFrom(st, map, items, i) ==
  IF i > Len(items) THEN st
  ELSE MergeFrom(MergeItem(st, map, items[i]), map, items, i + 1)

MergeResponse(cat, changes, map, items) ==
  MergeFrom([cat |-> cat, added |-> changes.added,
             updated |-> changes.updated, threw |-> FALSE], map, items, 1)

(***************************************************************************)
(* Inputs the model explores                                               *)
(***************************************************************************)
\* Longest provider response explored.
MaxItems == 2

BoundedSeq(S, n) == UNION {[1..k -> S] : k \in 0..n}

EntryPool ==
  { Entry("absent", "absent", <<>>, NoLocs),
    Entry("manual", "true", <<"c">>, Locs(<<>>)),
    Entry("stale", "absent", <<>>, Locs(fr :> Loc("translated", Bonjour))),
    Entry("absent", "false", <<>>, NoLocs),
    Entry("stale", "false", <<>>, NoLocs),
    Entry("absent", "absent", <<>>,
          Locs(en :> Loc("translated", Padded)
               @@ fr :> Loc("needs_review", Bonjour))),
    Entry("absent", "absent", <<>>,
          Locs(en :> Loc("translated", Hello)
               @@ fr :> Loc("translated", Bonjour)
               @@ de :> Loc("translated", Hallo))),
    Entry("absent", "absent", <<>>,
          Locs(en :> Loc("translated", Blank)
               @@ fr :> Loc("translated", Blank))),
    Entry("absent", "absent", <<>>,
          Locs(fr :> LocNoUnit @@ de :> LocNoValue("new"))),
    Entry("absent", "absent", <<>>,
          Locs(fr :> Loc("translated", <<>>)
               @@ de :> Loc("translated", Hallo))),
    Entry("absent", "absent", <<>>,
          Locs(fr :> Loc("new", Bonjour))) }

\* Entries tried under the second key of a two-key catalog.
SecondPool ==
  { e \in EntryPool :
      \/ ~e.localizations.present
      \/ en \in DOMAIN e.localizations.map }

\* Catalogs of at most two keys, in iteration order.
CatalogPool ==
  {<<>>}
  \cup {<<[key |-> Hello, entry |-> e]>> : e \in EntryPool}
  \cup {<<[key |-> EmptyKey, entry |-> e]>> : e \in SecondPool}
  \cup {<<[key |-> Hello, entry |-> e1], [key |-> EmptyKey, entry |-> e2]>> :
          <<e1, e2>> \in EntryPool \X SecondPool}

\* target_languages after split(',').map(trim).filter(nonempty)
TargetPool == {<<>>, <<fr>>, <<fr, de>>, <<de, fr>>, <<fr, fr>>}

\* source_language input; <<>> is the empty input (no hint).
HintPool == {<<>>, en}

Pair(lang, value) == [lang |-> lang, value |-> value]
Item(key, translations) == [key |-> key, translations |-> translations]

\* Items a provider response is built from: translations as the
\* Object.entries() of the item's `translations` object.
ResponsePool ==
  { Item(Hello, <<Pair(fr, Bonjour)>>),
    Item(Hello, <<Pair(fr, Salut), Pair(de, Hallo)>>),
    Item(Hello, <<Pair(es, Hola), Pair(fr, Bonjour)>>),
    Item(Hello, <<Pair(es, Hola)>>),
    Item(EmptyKey, <<Pair(de, Hallo)>>),
    Item(Ghost, <<Pair(fr, Bonjour)>>) }

(***************************************************************************)
(* run() (index.ts)                                                        *)
(***************************************************************************)
VARIABLES
  pc,                    \* position of run()
  targetLanguages,       \* parsed target_languages input
  sourceLanguageInput,   \* source_language input
  headCatalog,           \* `strings` of the catalog file at HEAD
  heap,                  \* address -> catalog object
  currentXcstringsData,  \* address of the parsed catalog, 0 before parsing
  updatedXcstringsData,  \* address of the analyzer's working catalog
  translationRequests,
  translationChanges,    \* [added, updated, staleRemoved]
  stringTranslationMap,
  xcstringsModified,
  fallbackToKeyCount,
  batchResponse,         \* batchResponse.translations
  changedFilesList,      \* catalogs written to xcstringsFilePath
  prCreated,
  failed                 \* core.setFailed was called

vars == <<pc, targetLanguages, sourceLanguageInput, headCatalog, heap,
          currentXcstringsData, updatedXcstringsData, translationRequests,
          translationChanges, stringTranslationMap, xcstringsModified,
          fallbackToKeyCount, batchResponse, changedFilesList, prCreated,
          failed>>

inputs == <<targetLanguages, sourceLanguageInput, headCatalog>>
analysis == <<updatedXcstringsData, translationRequests, stringTranslationMap,
              xcstringsModified, fallbackToKeyCount>>
effects == <<changedFilesList, prCreated>>

Init ==
  /\ pc = "start"
  /\ targetLanguages \in TargetPool
  /\ sourceLanguageInput \in HintPool
  /\ headCatalog \in CatalogPool
  /\ heap = <<>>
  /\ currentXcstringsData = 0
  /\ updatedXcstringsData = 0
  /\ translationRequests = <<>>
  /\ translationChanges = [added |-> <<>>, updated |-> <<>>,
                           staleRemoved |-> <<>>]
  /\ stringTranslationMap = <<>>
  /\ xcstringsModified = FALSE
  /\ fallbackToKeyCount = 0
  /\ batchResponse = <<>>
  /\ changedFilesList = <<>>
  /\ prCreated = FALSE
  /\ failed = FALSE

\* if (targetLanguages.length === 0) { core.setFailed(...); return; }
ValidateTargets ==
  /\ pc = "start"
  /\ pc' = IF Len(targetLanguages) = 0 THEN "failed" ELSE "read"
  /\ failed' = (Len(targetLanguages) = 0)
  /\ UNCHANGED <<inputs, heap, currentXcstringsData, analysis,
                 translationChanges, batchResponse, effects>>

\* getShaRefs, getFileContentAtCommit and JSON.parse all succeed.
ReadCatalog ==
  /\ pc = "read"
  /\ heap' = (1 :> headCatalog)
  /\ currentXcstringsData' = 1
  /\ pc' = "analyze"
  /\ UNCHANGED <<inputs, analysis, translationChanges, batchResponse,
                 effects, failed>>

\* getShaRefs throws, the content is null, or JSON.parse throws.
ReadCatalogFails ==
  /\ pc = "read"
  /\ pc' = "failed"
  /\ failed' = TRUE
  /\ UNCHANGED <<inputs, heap, currentXcstringsData, analysis,
                 translationChanges, batchResponse, effects>>

\* const analysisResult = analyzeStringsForTranslation(currentXcstringsData,
\*   targetLanguages, sourceLanguageInput || undefined)
Analyze ==
  /\ pc = "analyze"
  /\ LET copy   == DeepCopyAddr(currentXcstringsData, 2)
         copied == MapSet(heap, copy, heap[currentXcstringsData])
         result == analyzeStringsForTranslation(copied[copy], targetLanguages,
                                                sourceLanguageInput)
     IN  /\ heap' = MapSet(copied, copy, result.modified)
         /\ updatedXcstringsData' = copy
         /\ translationRequests' = result.translationRequests
         /\ translationChanges' =
              [translationChanges EXCEPT !.staleRemoved = result.staleRemoved]
         /\ stringTranslationMap' = result.stringTranslationMap
         /\ xcstringsModified' = result.xcstringsModified
         /\ fallbackToKeyCount' = result.fallbackToKeyCount
         /\ pc' = IF Len(result.translationRequests) > 0 THEN "fetch"
                  ELSE "write"
  /\ UNCHANGED <<inputs, currentXcstringsData, batchResponse, effects, failed>>

\* const batchResponse = await fetchBatchTranslations(...)
FetchBatchTranslations ==
  /\ pc = "fetch"
  /\ batchResponse' \in BoundedSeq(ResponsePool, MaxItems)
  /\ pc' = "merge"
  /\ UNCHANGED <<inputs, heap, currentXcstringsData, analysis,
                 translationChanges, effects, failed>>

\* The provider call throws; the outer catch calls core.setFailed.
FetchFails ==
  /\ pc = "fetch"
  /\ pc' = "failed"
  /\ failed' = TRUE
  /\ UNCHANGED <<inputs, heap, currentXcstringsData, analysis,
                 translationChanges, batchResponse, effects>>

\* for (const translationResult of batchResponse.translations) { ... }
\* A TypeError thrown inside the loop is caught by the outer catch.
MergeTranslations ==
  /\ pc = "merge"
  /\ LET merged == MergeResponse(heap[updatedXcstringsData],
                                 translationChanges, stringTranslationMap,
                                 batchResponse)
     IN  /\ heap' = MapSet(heap, updatedXcstringsData, merged.cat)
         /\ translationChanges' =
              [translationChanges EXCEPT !.added = merged.added,
                                         !.updated = merged.updated]
         /\ pc' = IF merged.threw THEN "failed" ELSE "write"
         /\ failed' = merged.threw
  /\ UNCHANGED <<inputs, currentXcstringsData, analysis, batchResponse,
                 effects>>

\* Variant: the file is written whether or not anything changed.
ShouldWrite_always == TRUE

\* if (xcstringsModified || added.length > 0 || updated.length > 0)
ShouldWrite ==
  \/ xcstringsModified
  \/ Len(translationChanges.added) > 0
  \/ Len(translationChanges.updated) > 0

\* fs.writeFileSync(xcstringsFilePath, formatXcstringsJson(updated)) succeeds,
\* or the else branch is taken.
WriteCatalog ==
  /\ pc = "write"
  /\ changedFilesList' = IF ShouldWrite
                         THEN Append(changedFilesList,
                                     heap[updatedXcstringsData])
                         ELSE changedFilesList
  /\ pc' = "pr"
  /\ UNCHANGED <<inputs, heap, currentXcstringsData, analysis,
                 translationChanges, batchResponse, prCreated, failed>>

\* Variant: the file is written before the failure is reported.
WriteFails_afterWriting ==
  /\ pc = "write"
  /\ ShouldWrite
  /\ changedFilesList' = Append(changedFilesList, heap[updatedXcstringsData])
  /\ pc' = "failed"
  /\ failed' = TRUE
  /\ UNCHANGED <<inputs, heap, currentXcstringsData, analysis,
                 translationChanges, batchResponse, prCreated>>

\* writeFileSync throws: core.setFailed(...); return;
WriteFails ==
  /\ pc = "write"
  /\ ShouldWrite
  /\ pc' = "failed"
  /\ failed' = TRUE
  /\ UNCHANGED <<inputs, heap, currentXcstringsData, analysis,
                 translationChanges, batchResponse, effects>>

\* if (changedFilesList.length > 0) await createPullRequest(...)
CreatePullRequest ==
  /\ pc = "pr"
  /\ prCreated' = (Len(changedFilesList) > 0)
  /\ pc' = "done"
  /\ UNCHANGED <<inputs, heap, currentXcstringsData, analysis,
                 translationChanges, batchResponse, changedFilesList, failed>>

\* createPullRequest (or reading github_token) throws.
CreatePullRequestFails ==
  /\ pc = "pr"
  /\ Len(changedFilesList) > 0
  /\ pc' = "failed"
  /\ failed' = TRUE
  /\ UNCHANGED <<inputs, heap, currentXcstringsData, analysis,
                 translationChanges, batchResponse, effects>>

Next ==
  \/ ValidateTargets
  \/ ReadCatalog
  \/ ReadCatalogFails
  \/ Analyze
  \/ FetchBatchTranslations
  \/ FetchFails
  \/ MergeTranslations
  \/ WriteCatalog
  \/ WriteFails
  \/ CreatePullRequest
  \/ CreatePullRequestFails

Spec == Init /\ [][Next]_vars

(***************************************************************************)
(* Properties                                                              *)
(***************************************************************************)
Elems(seq) == {seq[i] : i \in 1..Len(seq)}

\* analyzeStringsForTranslation has returned.
Analysed == updatedXcstringsData # 0
\* The merge loop is over (or was never entered).
MergeDone == Analysed /\ pc \notin {"fetch", "merge"}

Working == heap[updatedXcstringsData]

InputKeys == KeysOf(headCatalog)
InputEntry(k) == EntryOf(headCatalog, k)
StaleInInput(k) == InputEntry(k).extractionState = "stale"
OptedOutInInput(k) == InputEntry(k).shouldTranslate = "false"
ProcessedKey(k) == k \in InputKeys /\ ~StaleInInput(k) /\ ~OptedOutInInput(k)

HasNeedRecord(k) == k \in DOMAIN stringTranslationMap
LanguagesNeededOf(k) ==
  IF HasNeedRecord(k) THEN Elems(stringTranslationMap[k].languages) ELSE {}
RequestsFor(k) ==
  {i \in 1..Len(translationRequests) : translationRequests[i].key = k}

\* A localization as a reader of the catalog sees it.
LocView(cat, k, lang) ==
  IF HasKey(cat, k) /\ HasLoc(EntryOf(cat, k), lang)
  THEN [exists |-> TRUE, loc |-> EntryOf(cat, k).localizations.map[lang]]
  ELSE [exists |-> FALSE, loc |-> LocNoUnit]

AllBlank(text) == \A i \in 1..Len(text) : text[i] = SP

\* Positions <<i, j>> of the (language, value) pairs of the response.
ResponsePairs ==
  UNION {{<<i, j>> : j \in 1..Len(batchResponse[i].translations)} :
           i \in 1..Len(batchResponse)}
PairKey(p)   == batchResponse[p[1]].key
PairLang(p)  == batchResponse[p[1]].translations[p[2]].lang
PairValue(p) == batchResponse[p[1]].translations[p[2]].value
InScope(p) ==
  /\ HasKey(Working, PairKey(p))
  /\ HasNeedRecord(PairKey(p))
  /\ PairLang(p) \in LanguagesNeededOf(PairKey(p))
Later(p, q) == q[1] > p[1] \/ (q[1] = p[1] /\ q[2] > p[2])
LastWord(p) ==
  ~\E q \in ResponsePairs :
      Later(p, q) /\ PairKey(q) = PairKey(p) /\ PairLang(q) = PairLang(p)

\* C1: once the merge is over, every in-scope translation of the response
\* (the last one, when a key and language repeat) is the translated
\* stringUnit of its key and language in the working catalog, the entry
\* being created when it did not exist.
C1_MergeAppliesInScope ==
  MergeDone =>
    \A p \in ResponsePairs :
      (InScope(p) /\ LastWord(p)) =>
        LocView(Working, PairKey(p), PairLang(p)) =
          [exists |-> TRUE, loc |-> Loc("translated", PairValue(p))]

\* The need rule as the claim words it.
ClaimedNeed(entry, lang) ==
  \/ ~HasLoc(entry, lang)
  \/ ~entry.localizations.map[lang].hasUnit
  \/ ~entry.localizations.map[lang].hasValue
  \/ AllBlank(entry.localizations.map[lang].value)
  \/ entry.localizations.map[lang].state = "needs_review"

TranslatedWithText(entry, lang) ==
  /\ HasLoc(entry, lang)
  /\ entry.localizations.map[lang].hasUnit
  /\ entry.localizations.map[lang].hasValue
  /\ entry.localizations.map[lang].state = "translated"
  /\ ~AllBlank(entry.localizations.map[lang].value)

\* C2: for every processed key and every target language, the language is
\* in the key's languagesNeeded exactly when it has no localization, its
\* value is absent, empty or blank, or its state is needs_review; a
\* translated localization with text is never flagged.
C2_NeedDetectionExact ==
  Analysed =>
    \A k \in InputKeys : \A lang \in Elems(targetLanguages) :
      ProcessedKey(k) =>
        /\ (lang \in LanguagesNeededOf(k)) <=> ClaimedNeed(InputEntry(k), lang)
        /\ TranslatedWithText(InputEntry(k), lang)
             => lang \notin LanguagesNeededOf(k)

C2_Witness ==
  /\ Analysed
  /\ \E k \in InputKeys :
       /\ ProcessedKey(k)
       /\ HasLoc(InputEntry(k), fr)
       /\ InputEntry(k).localizations.map[fr] = Loc("needs_review", Bonjour)
       /\ fr \in LanguagesNeededOf(k)
  /\ \E k \in InputKeys :
       /\ ProcessedKey(k)
       /\ TranslatedWithText(InputEntry(k), fr)
       /\ fr \in Elems(targetLanguages)
       /\ ~HasNeedRecord(k)

\* C3: after analysis the working catalog holds no stale entry, staleRemoved
\* lists exactly the keys that were stale in the input, each once, and no
\* request and no need record exists for any of them.
C3_StaleRemovalExhaustive ==
  Analysed =>
    /\ \A k \in KeysOf(Working) : EntryOf(Working, k).extractionState # "stale"
    /\ Elems(translationChanges.staleRemoved) =
         {k \in InputKeys : StaleInInput(k)}
    /\ Len(translationChanges.staleRemoved) =
         Cardinality({k \in InputKeys : StaleInInput(k)})
    /\ \A k \in InputKeys :
         StaleInInput(k) =>
           /\ ~HasKey(Working, k)
           /\ RequestsFor(k) = {}
           /\ ~HasNeedRecord(k)

C3_Witness ==
  /\ Analysed
  /\ Len(translationChanges.staleRemoved) = 1
  /\ Len(translationRequests) = 1
  /\ Len(Working) = 1

LedgerIds == Elems(translationChanges.added) \cup Elems(translationChanges.updated)

\* C4: once the merge is over, every in-scope translation of the response is
\* in added when its need record says isNew and in updated otherwise; added
\* and updated share no identifier; every identifier names a key and one of
\* its needed languages.
C4_LedgerClassification ==
  MergeDone =>
    /\ \A p \in ResponsePairs :
         InScope(p) =>
           IF stringTranslationMap[PairKey(p)].isNew[PairLang(p)]
           THEN ChangeKey(PairKey(p), PairLang(p))
                  \in Elems(translationChanges.added)
           ELSE ChangeKey(PairKey(p), PairLang(p))
                  \in Elems(translationChanges.updated)
    /\ Elems(translationChanges.added) \cap Elems(translationChanges.updated)
         = {}
    /\ \A id \in LedgerIds :
         \E k \in DOMAIN stringTranslationMap :
           \E lang \in LanguagesNeededOf(k) : id = ChangeKey(k, lang)

\* The fallback cases as the claim words them.
ClaimedFallback(entry) ==
  \/ sourceLanguageInput = <<>>
  \/ ~HasLoc(entry, sourceLanguageInput)
  \/ ~entry.localizations.map[sourceLanguageInput].hasUnit
  \/ ~entry.localizations.map[sourceLanguageInput].hasValue
  \/ AllBlank(entry.localizations.map[sourceLanguageInput].value)

\* text is value with its leading and trailing whitespace removed, nothing
\* else.
IsStripped(text, value) ==
  \E a \in 1..Len(value) : \E b \in a..Len(value) :
    /\ text = SubSeq(value, a, b)
    /\ value[a] # SP /\ value[b] # SP
    /\ \A i \in 1..(a - 1) : value[i] = SP
    /\ \A i \in (b + 1)..Len(value) : value[i] = SP

\* C5: every request's text is the key when no hint is given or the hinted
\* localization is absent or blank, and otherwise the hinted value with only
\* its surrounding whitespace removed; fallbackToKeyCount counts the
\* requests whose text is the key fallback.
C5_SourceTextSelection ==
  Analysed =>
    /\ \A i \in 1..Len(translationRequests) :
         LET r == translationRequests[i]
             e == InputEntry(r.key)
         IN  IF ClaimedFallback(e) THEN r.text = r.key
             ELSE IsStripped(r.text,
                             e.localizations.map[sourceLanguageInput].value)
    /\ fallbackToKeyCount =
         Cardinality({i \in 1..Len(translationRequests) :
                        ClaimedFallback(InputEntry(translationRequests[i].key))})

C5_Witness ==
  /\ Analysed
  /\ Len(translationRequests) = 2
  /\ fallbackToKeyCount = 1
  /\ translationRequests[1].key = Hello
  /\ translationRequests[1].text = <<"H", "i", " ", "u">>
  /\ translationRequests[2].text = EmptyKey

\* C6: a key has a need record exactly when one request was emitted for it,
\* exactly when it is processed and some target language needs work; the
\* request's targetLanguages is the record's languagesNeeded, non-empty,
\* within the target list and in the target list's order.
C6_RequestsMatchNeedIndex ==
  Analysed =>
    \A k \in InputKeys \cup DOMAIN stringTranslationMap
             \cup {translationRequests[i].key :
                     i \in 1..Len(translationRequests)} :
      /\ HasNeedRecord(k) <=> Cardinality(RequestsFor(k)) = 1
      /\ Cardinality(RequestsFor(k)) <= 1
      /\ HasNeedRecord(k) <=>
           /\ ProcessedKey(k)
           /\ \E lang \in Elems(targetLanguages) :
                ClaimedNeed(InputEntry(k), lang)
      /\ \A i \in RequestsFor(k) :
           LET langs == translationRequests[i].targetLanguages IN
           /\ langs = stringTranslationMap[k].languages
           /\ Len(langs) > 0
           /\ Elems(langs) \subseteq Elems(targetLanguages)
           /\ langs = SelectSeq(targetLanguages,
                                LAMBDA lang : lang \in Elems(langs))

C6_Witness ==
  /\ Analysed
  /\ targetLanguages = <<de, fr>>
  /\ Len(headCatalog) = 2
  /\ Len(translationRequests) = 1
  /\ translationRequests[1].targetLanguages = <<de, fr>>
  /\ ProcessedKey(EmptyKey)
  /\ ~HasNeedRecord(EmptyKey)

\* C7: the catalog object the caller parsed keeps its value through the
\* analysis and the merge.
C7_InputNeverMutated ==
  currentXcstringsData # 0 => heap[currentXcstringsData] = headCatalog

C7_Witness ==
  /\ pc = "done"
  /\ Len(translationChanges.staleRemoved) > 0
  /\ Len(translationChanges.updated) > 0
  /\ Working # headCatalog
  /\ heap[currentXcstringsData] = headCatalog

\* C8 as stated: every entry with shouldTranslate = false is in the working
\* catalog unchanged, with no request and no need record.
C8_OptOutInert ==
  Analysed =>
    \A k \in InputKeys :
      OptedOutInInput(k) =>
        /\ HasKey(Working, k)
        /\ EntryOf(Working, k) = InputEntry(k)
        /\ RequestsFor(k) = {}
        /\ ~HasNeedRecord(k)

\* C8 (amended): every entry with shouldTranslate = false that is not marked
\* stale is in the working catalog unchanged; no entry with shouldTranslate =
\* false, stale or not, gets a request or a need record.
C8_OptOutInertUnlessStale ==
  Analysed =>
    \A k \in InputKeys :
      OptedOutInInput(k) =>
        /\ ~StaleInInput(k) =>
             (HasKey(Working, k) /\ EntryOf(Working, k) = InputEntry(k))
        /\ RequestsFor(k) = {}
        /\ ~HasNeedRecord(k)

C8_Witness ==
  /\ Analysed
  /\ Len(translationRequests) = 1
  /\ \E k \in InputKeys :
       /\ OptedOutInInput(k)
       /\ ~StaleInInput(k)
       /\ ~InputEntry(k).localizations.present
       /\ HasKey(Working, k)

\* The response with its out-of-contract content removed: items whose key is
\* in the catalog and the need index, with the pairs whose language is
\* needed.
InContractResponse(cat, map, items) ==
  LET known == SelectSeq(items,
                 LAMBDA it : HasKey(cat, it.key) /\ it.key \in DOMAIN map)
  IN  [i \in 1..Len(known) |->
         Item(known[i].key,
              SelectSeq(known[i].translations,
                        LAMBDA pr : pr.lang \in Elems(map[known[i].key].languages)))]

HasInContractPair(cat, map, items) ==
  \E i \in 1..Len(InContractResponse(cat, map, items)) :
     InContractResponse(cat, map, items)[i].translations # <<>>

\* C9: the merge leaves the catalog, the ledger and the run's outcome as if
\* the out-of-contract items and pairs were not in the response; a response
\* with nothing else changes neither the catalog nor the ledger and does not
\* fail the run.
C9_MergeStep ==
  pc = "merge" =>
    LET kept == InContractResponse(heap[updatedXcstringsData],
                                   stringTranslationMap, batchResponse)
        ref  == MergeResponse(heap[updatedXcstringsData], translationChanges,
                              stringTranslationMap, kept)
    IN  /\ heap'[updatedXcstringsData] = ref.cat
        /\ translationChanges'.added = ref.added
        /\ translationChanges'.updated = ref.updated
        /\ failed' = ref.threw
        /\ ~HasInContractPair(heap[updatedXcstringsData],
                              stringTranslationMap, batchResponse)
             => /\ heap' = heap
                /\ translationChanges' = translationChanges
                /\ pc' = "write"

C9_OutOfContractSkipped == [][C9_MergeStep]_vars

C9_Witness ==
  /\ pc = "write"
  /\ batchResponse = <<Item(Ghost, <<Pair(fr, Bonjour)>>),
                       Item(Hello, <<Pair(es, Hola), Pair(fr, Bonjour)>>)>>
  /\ translationChanges.updated = <<ChangeKey(Hello, fr)>>
  /\ LocView(Working, Hello, es).exists = FALSE
  /\ LocView(Working, Hello, fr).loc = Loc("translated", Bonjour)

\* C10: a needed (key, language) for which the response carries no
\* translation keeps the localization it had in the input catalog and gets
\* no ledger identifier.
C10_UncoveredLeftAlone ==
  Analysed =>
    \A k \in DOMAIN stringTranslationMap : \A lang \in LanguagesNeededOf(k) :
      (~\E p \in ResponsePairs : PairKey(p) = k /\ PairLang(p) = lang) =>
        /\ LocView(Working, k, lang) = LocView(headCatalog, k, lang)
        /\ ChangeKey(k, lang) \notin LedgerIds

C10_Witness ==
  /\ pc = "done"
  /\ batchResponse = <<Item(Hello, <<Pair(fr, Bonjour)>>)>>
  /\ LanguagesNeededOf(Hello) = {fr, de}
  /\ translationChanges.updated = <<ChangeKey(Hello, fr)>>
  /\ LocView(headCatalog, Hello, de).exists
  /\ LocView(Working, Hello, de) = LocView(headCatalog, Hello, de)

\* C11 as stated: a run that failed has written no catalog file and created
\* no pull request (no fatal condition after the file was written).
C11_FatalBeforeSideEffects ==
  failed => (changedFilesList = <<>> /\ ~prCreated)

\* C11 (amended): a step that fails the run writes no file and creates no
\* pull request; it happens before the file is written unless it is the
\* pull-request step; after it nothing is written and no pull request is
\* created; a failed run never has a pull request.
C11_FailingStep ==
  /\ (~failed /\ failed') =>
       /\ changedFilesList' = changedFilesList
       /\ prCreated' = prCreated
       /\ pc # "pr" => changedFilesList = <<>>
       /\ ~prCreated'
  /\ failed =>
       /\ changedFilesList' = changedFilesList
       /\ prCreated' = prCreated
       /\ failed'

C11_FatalStopsSideEffects == [][C11_FailingStep]_vars

C11_Witness ==
  /\ failed
  /\ xcstringsModified
  /\ Len(translationRequests) > 0
  /\ changedFilesList = <<>>
  /\ ~prCreated

\* C12: every request the analyzer emits has non-empty source text.
C12_SourceTextNonEmpty ==
  \A i \in 1..Len(translationRequests) : translationRequests[i].text # <<>>

SomethingChanged ==
  \/ Len(translationChanges.staleRemoved) > 0
  \/ Len(translationChanges.added) > 0
  \/ Len(translationChanges.updated) > 0

FileWritten == Len(changedFilesList) > 0

\* C13: after analysis xcstringsModified is true exactly when a stale key
\* was removed; the file is written only when a stale key was removed or
\* the ledger has an added or updated entry, and always then once the write
\* step is passed; a pull request exists only when the file was written,
\* and always then once the run is done.
C13_DirtyTracking ==
  /\ Analysed =>
       (xcstringsModified <=> Len(translationChanges.staleRemoved) > 0)
  /\ FileWritten => SomethingChanged
  /\ prCreated => FileWritten
  /\ pc \in {"pr", "done"} => (FileWritten <=> SomethingChanged)
  /\ pc = "done" => (prCreated <=> FileWritten)

C13_Witness ==
  /\ pc = "done"
  /\ Len(translationRequests) > 0
  /\ Len(batchResponse) > 0
  /\ Working # headCatalog
  /\ ~xcstringsModified
  /\ ~SomethingChanged
  /\ ~FileWritten
  /\ ~prCreated
====
